---- MODULE Spec2Model ----
(***************************************************************************)
(* A model of linked-list/src/lib.rs: a singly linked stack of strings.    *)
(* The heap is a function from node addresses to Node records; Box<Node>   *)
(* is an address, Option<Box<Node>> is an address or NULL, Option<String>  *)
(* is a sequence of length 0 (None) or 1 (Some).                           *)
(***************************************************************************)
EXTENDS Integers, Sequences, FiniteSets, TLC

\* ---------------------------------------------------------------- bounds
\* Number of heap cells the allocator can hand out at one time.
MaxNodes == 3
\* Number of &mut-calls (push, pop, iter_mut) made on one list.
MaxOps == 4
\* Number of times one iterator is asked again after it has ended.
MaxEnds == 2

\* The strings the callers push, and the suffix the iter_mut caller appends.
Values == {"a", "b", "c"}
Suffix == "!"

NULL == 0
NodeIds == 1..MaxNodes
None == <<>>
Some(v) == <<v>>

VARIABLES
    head,          \* LinkedList.head : Option<Box<Node>>
    size,          \* LinkedList.size : usize
    nodes,         \* the heap: address -> Node, for the allocated nodes
    phase,         \* "live" | "dropping" | "dropped" : position in Drop::drop
    current_node,  \* the local of Drop::drop
    ret,           \* what the most recent call was and what it returned
    hist,          \* the push, pop and iter_mut calls made since new()
    iter,          \* the live Iter, if any, and what it has yielded
    iter_mut,      \* the live IterMut, if any, and what it has yielded
    dropLog        \* what Drop::drop has released so far

vars == <<head, size, nodes, phase, current_node, ret, hist, iter, iter_mut, dropLog>>

\* ------------------------------------------------------- the node chain
\* The addresses reached from `from` by following Node.next in `heap`.
RECURSIVE ChainIn(_, _)
ChainIn(heap, from) ==
    IF from = NULL THEN <<>> ELSE <<from>> \o ChainIn(heap, heap[from].next)

Chain(from) == ChainIn(nodes, from)

\* The element values from head to tail.
Elements == [i \in 1..Len(Chain(head)) |-> nodes[Chain(head)[i]].data]

\* Dropping a Box<Node> drops the Node's fields, `next` among them: the
\* compiler's drop glue releases every node still linked behind it, one
\* nested call per node.
Range(seq) == {seq[i] : i \in 1..Len(seq)}
DropBox(heap, id) == [i \in (DOMAIN heap) \ Range(ChainIn(heap, id)) |-> heap[i]]
DropBoxDepth(heap, id) == Len(ChainIn(heap, id))

\* Iter / IterMut: `next` is the field of the struct; the rest records what
\* the iterator has returned (`yielded`, `ends`: the number of None) and, for
\* IterMut, which items the caller appended to and the list as it was when
\* iter_mut() was called.
NoIter == [active |-> FALSE, next |-> NULL, yielded |-> <<>>, ends |-> 0]
NoIterMut == [active |-> FALSE, next |-> NULL, yielded |-> <<>>, ends |-> 0,
              appended |-> <<>>, before |-> <<>>, chain |-> <<>>, size |-> 0]
NoDrop == [n |-> 0, iterations |-> 0, depth |-> 0]

NoBorrow == ~iter.active /\ ~iter_mut.active
Live == phase = "live"

\* ------------------------------------------------------- LinkedList::new
\* new() that starts the count at 1.
Init_CountsFromOne ==
    /\ head = NULL
    /\ size = 1
    /\ nodes = <<>>
    /\ phase = "live"
    /\ current_node = NULL
    /\ ret = [op |-> "new", val |-> None]
    /\ hist = <<>>
    /\ iter = NoIter
    /\ iter_mut = NoIterMut
    /\ dropLog = NoDrop

Init ==
    /\ head = NULL
    /\ size = 0
    /\ nodes = <<>>
    /\ phase = "live"
    /\ current_node = NULL
    /\ ret = [op |-> "new", val |-> None]
    /\ hist = <<>>
    /\ iter = NoIter
    /\ iter_mut = NoIterMut
    /\ dropLog = NoDrop

\* ------------------------------------------------------ LinkedList::push
\* Box::new returns the address of an unused cell. Addresses are opaque to
\* the program (it never compares or prints them), so the allocator is taken
\* to be first-fit: the lowest unused address.
FreeCells == NodeIds \ DOMAIN nodes
BoxNew == CHOOSE id \in FreeCells : \A other \in FreeCells : id <= other

\* push that builds the node with `next: None`: the old chain is not linked.
PushNode_Unlinked(data) == [data |-> data, next |-> NULL]

\* Node { data, next: self.head.take() }
PushNode(data) == [data |-> data, next |-> head]

\* push that forgets `self.size += 1`.
PushSize_NoIncrement == size

\* self.size += 1
PushSize == size + 1

\* The list a push(data) leaves: new_node is stored in head after the old
\* head was moved into it, and size is raised.
AfterPush(data) ==
    LET new_node == BoxNew IN
    [heap |-> (new_node :> PushNode(data)) @@ nodes, head |-> new_node, size |-> PushSize]

Push(data) ==
    /\ Live /\ NoBorrow
    /\ Len(hist) < MaxOps
    /\ FreeCells # {}
    /\ nodes' = AfterPush(data).heap
    /\ head' = AfterPush(data).head
    /\ size' = AfterPush(data).size
    /\ ret' = [op |-> "push", val |-> None]
    /\ hist' = Append(hist, [op |-> "push", val |-> Some(data)])
    /\ UNCHANGED <<phase, current_node, iter, iter_mut, dropLog>>

\* ------------------------------------------------------- LinkedList::pop
\* pop that hands out the head's value and leaves size as it is.
PopFrom_KeepsCount(heap, hd, sz) ==
    IF hd = NULL
    THEN [head |-> NULL, size |-> sz, freed |-> {}, val |-> None]
    ELSE [head |-> heap[hd].next, size |-> sz, freed |-> {hd},
          val |-> Some(heap[hd].data)]

\* `self.head.take()?` returns None early, before anything is assigned;
\* otherwise the head's fields are moved out and its Box is freed. PopFrom
\* is pop on the list whose fields are `hd` and `sz` in the heap `heap`.
PopFrom(heap, hd, sz) ==
    IF hd = NULL
    THEN [head |-> NULL, size |-> sz, freed |-> {}, val |-> None]
    ELSE [head |-> heap[hd].next, size |-> sz - 1, freed |-> {hd},
          val |-> Some(heap[hd].data)]

\* pop that forgets `self.head = node.next`: head stays None after take()
\* and the rest of the chain is dropped with the node.
PopOutcome_DropsRest ==
    IF head = NULL
    THEN [head |-> NULL, size |-> size, freed |-> {}, val |-> None]
    ELSE [head |-> NULL, size |-> size - 1, freed |-> Range(Chain(head)),
          val |-> Some(nodes[head].data)]

\* pop that runs `self.size -= 1` before looking at the head.
PopOutcome_Underflow ==
    IF head = NULL
    THEN [head |-> NULL, size |-> size - 1, freed |-> {}, val |-> None]
    ELSE [head |-> nodes[head].next, size |-> size - 1, freed |-> {head},
          val |-> Some(nodes[head].data)]

\* pop that forgets `self.size -= 1`.
PopOutcome_NoDecrement ==
    IF head = NULL
    THEN [head |-> NULL, size |-> size, freed |-> {}, val |-> None]
    ELSE [head |-> nodes[head].next, size |-> size, freed |-> {head},
          val |-> Some(nodes[head].data)]

PopOutcome == PopFrom(nodes, head, size)

Pop ==
    /\ Live /\ NoBorrow
    /\ Len(hist) < MaxOps
    /\ head' = PopOutcome.head
    /\ size' = PopOutcome.size
    /\ nodes' = [i \in (DOMAIN nodes) \ PopOutcome.freed |-> nodes[i]]
    /\ ret' = [op |-> "pop", val |-> PopOutcome.val]
    /\ hist' = Append(hist, [op |-> "pop", val |-> PopOutcome.val])
    /\ UNCHANGED <<phase, current_node, iter, iter_mut, dropLog>>

\* ------------------------------------- LinkedList::len, is_empty, peek
len == size

is_empty == head = NULL

\* peek that walks to the end of the chain instead of stopping at the head.
peek_Tail ==
    IF head = NULL THEN None ELSE Some(nodes[Chain(head)[Len(Chain(head))]].data)

peek == IF head = NULL THEN None ELSE Some(nodes[head].data)

Len_ ==
    /\ Live /\ NoBorrow
    /\ ret' = [op |-> "len", val |-> Some(len)]
    /\ UNCHANGED <<head, size, nodes, phase, current_node, hist, iter, iter_mut, dropLog>>

IsEmpty ==
    /\ Live /\ NoBorrow
    /\ ret' = [op |-> "is_empty", val |-> Some(is_empty)]
    /\ UNCHANGED <<head, size, nodes, phase, current_node, hist, iter, iter_mut, dropLog>>

\* peek takes &self: it may run while an Iter is alive, not while an IterMut is.
Peek ==
    /\ Live /\ ~iter_mut.active
    /\ ret' = [op |-> "peek", val |-> peek]
    /\ UNCHANGED <<head, size, nodes, phase, current_node, hist, iter, iter_mut, dropLog>>

\* ------------------------------------------- impl Display for LinkedList
\* Display that writes ", " after every element, the last one too.
Separator_Always(node) == ", "

\* What the loop writes after a node's data: ", " when a successor exists.
Separator(node) == IF node.next # NULL THEN ", " ELSE ""

RECURSIVE FmtLoop(_, _)
FmtLoop(current, out) ==
    IF current = NULL
    THEN out
    ELSE LET node == nodes[current] IN
         FmtLoop(node.next, (out \o node.data) \o Separator(node))

fmt == FmtLoop(head, "[") \o "]"

Display ==
    /\ Live /\ ~iter_mut.active
    /\ ret' = [op |-> "fmt", val |-> Some(fmt)]
    /\ UNCHANGED <<head, size, nodes, phase, current_node, hist, iter, iter_mut, dropLog>>

\* ------------------------------------------ LinkedList::iter, Iter::next
\* iter() that goes on where the previous Iter stopped.
IterNew_Resumes ==
    /\ Live /\ ~iter_mut.active
    /\ iter' = [active |-> TRUE, next |-> IF iter.active THEN iter.next ELSE head,
                yielded |-> <<>>, ends |-> 0]
    /\ ret' = [op |-> "iter", val |-> None]
    /\ UNCHANGED <<head, size, nodes, phase, current_node, hist, iter_mut, dropLog>>

\* Iter { next: self.head.as_deref() }; a caller may call iter() again while
\* an Iter is alive: the model follows the newest one.
IterNew ==
    /\ Live /\ ~iter_mut.active
    /\ iter' = [active |-> TRUE, next |-> head, yielded |-> <<>>, ends |-> 0]
    /\ ret' = [op |-> "iter", val |-> None]
    /\ UNCHANGED <<head, size, nodes, phase, current_node, hist, iter_mut, dropLog>>

\* next() that ends at the last node instead of after it.
IterStep_StopsEarly(next) ==
    IF next = NULL \/ nodes[next].next = NULL
    THEN [next |-> NULL, item |-> None]
    ELSE [next |-> nodes[next].next, item |-> Some(nodes[next].data)]

\* self.next.map(|node| { self.next = node.next.as_deref(); &node.data })
IterStep(next) ==
    IF next = NULL
    THEN [next |-> NULL, item |-> None]
    ELSE [next |-> nodes[next].next, item |-> Some(nodes[next].data)]

\* next() that puts the Iter back at the head when it reaches the end.
IterNext_Rewinds ==
    /\ iter.active
    /\ iter.ends < MaxEnds
    /\ LET r == IterStep(iter.next) IN
          /\ iter' = [iter EXCEPT !.next = IF r.item = None THEN head ELSE r.next,
                                  !.yielded = IF r.item = None THEN @ ELSE @ \o r.item,
                                  !.ends = IF r.item = None THEN @ + 1 ELSE @]
          /\ ret' = [op |-> "iter.next", val |-> r.item]
    /\ UNCHANGED <<head, size, nodes, phase, current_node, hist, iter_mut, dropLog>>

IterNext ==
    /\ iter.active
    /\ iter.ends < MaxEnds
    /\ LET r == IterStep(iter.next) IN
          /\ iter' = [iter EXCEPT !.next = r.next,
                                  !.yielded = IF r.item = None THEN @ ELSE @ \o r.item,
                                  !.ends = IF r.item = None THEN @ + 1 ELSE @]
          /\ ret' = [op |-> "iter.next", val |-> r.item]
    /\ UNCHANGED <<head, size, nodes, phase, current_node, hist, iter_mut, dropLog>>

IterDrop ==
    /\ iter.active
    /\ iter' = NoIter
    /\ ret' = [op |-> "iter.drop", val |-> None]
    /\ UNCHANGED <<head, size, nodes, phase, current_node, hist, iter_mut, dropLog>>

\* ---------------------------------- LinkedList::iter_mut, IterMut::next
IterMutNew ==
    /\ Live /\ NoBorrow
    /\ Len(hist) < MaxOps
    /\ iter_mut' = [active |-> TRUE, next |-> head, yielded |-> <<>>, ends |-> 0,
                    appended |-> <<>>, before |-> Elements, chain |-> Chain(head),
                    size |-> size]
    /\ ret' = [op |-> "iter_mut", val |-> None]
    /\ hist' = Append(hist, [op |-> "iter_mut", val |-> None])
    /\ UNCHANGED <<head, size, nodes, phase, current_node, iter, dropLog>>

\* next() that advances first and lends out the node it arrives at.
IterMutStep_LendsSuccessor(next) ==
    IF next = NULL \/ nodes[next].next = NULL
    THEN [next |-> NULL, item |-> None]
    ELSE [next |-> nodes[next].next, item |-> Some(nodes[next].next)]

\* next() that moves two links ahead instead of one.
IterMutStep_SkipsOne(next) ==
    IF next = NULL
    THEN [next |-> NULL, item |-> None]
    ELSE [next |-> IF nodes[next].next = NULL THEN NULL
                   ELSE nodes[nodes[next].next].next,
          item |-> Some(next)]

\* self.next.take().map(|node| { self.next = node.next.as_deref_mut(); &mut node.data })
\* The item is the address of the node whose data is lent out.
IterMutStep(next) ==
    IF next = NULL
    THEN [next |-> NULL, item |-> None]
    ELSE [next |-> nodes[next].next, item |-> Some(next)]

IterMutNext ==
    /\ iter_mut.active
    /\ iter_mut.ends < MaxEnds
    /\ LET r == IterMutStep(iter_mut.next) IN
          /\ iter_mut' = [iter_mut EXCEPT
                             !.next = r.next,
                             !.yielded = IF r.item = None THEN @ ELSE @ \o r.item,
                             !.appended = IF r.item = None THEN @ ELSE Append(@, FALSE),
                             !.ends = IF r.item = None THEN @ + 1 ELSE @]
          /\ ret' = [op |-> "iter_mut.next",
                     val |-> IF r.item = None THEN None ELSE Some(nodes[r.item[1]].data)]
    /\ UNCHANGED <<head, size, nodes, phase, current_node, hist, iter, dropLog>>

\* The body of the caller's loop, `item.push_str(suffix)`, on the item the
\* last call of next() returned; a caller may also leave an item as it is.
PushStr ==
    /\ iter_mut.active
    /\ iter_mut.ends = 0
    /\ Len(iter_mut.yielded) > 0
    /\ LET k == Len(iter_mut.yielded)
           item == iter_mut.yielded[k] IN
          /\ ~iter_mut.appended[k]
          /\ nodes' = [nodes EXCEPT ![item].data = @ \o Suffix]
          /\ iter_mut' = [iter_mut EXCEPT !.appended[k] = TRUE]
    /\ ret' = [op |-> "push_str", val |-> None]
    /\ UNCHANGED <<head, size, phase, current_node, hist, iter, dropLog>>

IterMutDrop ==
    /\ iter_mut.active
    /\ iter_mut' = NoIterMut
    /\ ret' = [op |-> "iter_mut.drop", val |-> None]
    /\ UNCHANGED <<head, size, nodes, phase, current_node, hist, iter, dropLog>>

\* ---------------------------------------------- impl Drop for LinkedList
\* let mut current_node = self.head.take();
DropBegin ==
    /\ Live /\ NoBorrow
    /\ phase' = "dropping"
    /\ current_node' = head
    /\ head' = NULL
    /\ dropLog' = [n |-> Cardinality(DOMAIN nodes), iterations |-> 0, depth |-> 0]
    /\ ret' = [op |-> "drop", val |-> None]
    /\ UNCHANGED <<size, nodes, hist, iter, iter_mut>>

\* A loop that reads boxed_node.next and leaves the link in the node.
TakeNext_LeavesLink(node) == node

\* boxed_node.next.take(): the successor link is moved out of the node.
TakeNext(node) == [node EXCEPT !.next = NULL]

\* One iteration of `while let Some(mut boxed_node) = current_node`: the
\* successor is taken out of boxed_node, and boxed_node is dropped at the
\* end of the body.
DropStep ==
    /\ phase = "dropping"
    /\ current_node # NULL
    /\ LET boxed_node == current_node
           taken == [nodes EXCEPT ![boxed_node] = TakeNext(@)] IN
          /\ current_node' = nodes[boxed_node].next
          /\ nodes' = DropBox(taken, boxed_node)
          /\ dropLog' = [dropLog EXCEPT
                            !.iterations = @ + 1,
                            !.depth = IF DropBoxDepth(taken, boxed_node) > @
                                      THEN DropBoxDepth(taken, boxed_node) ELSE @]
    /\ UNCHANGED <<head, size, phase, ret, hist, iter, iter_mut>>

\* The loop ends when current_node is None; the list is gone.
DropEnd ==
    /\ phase = "dropping"
    /\ current_node = NULL
    /\ phase' = "dropped"
    /\ UNCHANGED <<head, size, nodes, current_node, ret, hist, iter, iter_mut, dropLog>>

\* A new list is made after the old one is gone.
New ==
    /\ phase = "dropped"
    /\ head' = NULL
    /\ size' = 0
    /\ phase' = "live"
    /\ ret' = [op |-> "new", val |-> None]
    /\ hist' = <<>>
    /\ dropLog' = NoDrop
    /\ UNCHANGED <<nodes, current_node, iter, iter_mut>>

\* --------------------------------------- states inside push, pop, drop
\* Who owns the nodes between two statements of an operation: `head` is
\* LinkedList.head and `locals` are the operation's variables that hold an
\* Option<Box<Node>>.
\* push and pop, after `self.head.take()`: the old head is in a temporary.
HeadTaken == [heap |-> nodes, head |-> NULL, locals |-> <<head>>]

\* push, after `Box::new(Node { data, next: self.head.take() })`: new_node
\* holds the new node, which holds the old chain.
PushBoxed(data) ==
    [heap |-> (BoxNew :> PushNode(data)) @@ nodes, head |-> NULL, locals |-> <<BoxNew>>]

\* pop, after `self.head = node.next`: the link was moved out of `node`.
PopRelinked ==
    [heap |-> [nodes EXCEPT ![head].next = NULL], head |-> PopOutcome.head,
     locals |-> <<head>>]

\* drop, after `current_node = boxed_node.next.take()`.
DropTaken ==
    [heap |-> [nodes EXCEPT ![current_node] = TakeNext(@)], head |-> head,
     locals |-> <<current_node, nodes[current_node].next>>]

\* Between the steps the model takes: head, and the local of Drop::drop.
AtRest == [heap |-> nodes, head |-> head, locals |-> <<current_node>>]

Next ==
    \/ \E data \in Values : Push(data)
    \/ Pop
    \/ Len_
    \/ IsEmpty
    \/ Peek
    \/ Display
    \/ IterNew
    \/ IterNext
    \/ IterDrop
    \/ IterMutNew
    \/ IterMutNext
    \/ PushStr
    \/ IterMutDrop
    \/ DropBegin
    \/ DropStep
    \/ DropEnd
    \/ New

Spec == Init /\ [][Next]_vars

\* =================================================================
\* Properties
\* =================================================================

\* The number of calls of `op` made on the list since new().
Calls(op) == Cardinality({i \in DOMAIN hist : hist[i].op = op})

\* The calls since new() are n pushes followed by pops only.
PushesThenPops(n) ==
    \A i \in DOMAIN hist : hist[i].op = (IF i <= n THEN "push" ELSE "pop")

\* C1: after pushes v1..vn on a new list, the i-th pop returns v(n+1-i) for
\* i <= n, and every pop after the n-th returns None.
C1_LifoOrder ==
    \A n \in 0..Len(hist) :
        PushesThenPops(n) =>
            \A i \in 1..(Len(hist) - n) :
                hist[n + i].val = (IF i <= n THEN hist[n + 1 - i].val ELSE None)

C1_Witness ==
    /\ Len(hist) = 4
    /\ PushesThenPops(2)
    /\ hist[1].val # hist[2].val
    /\ hist[3].val = hist[2].val
    /\ hist[4].val = hist[1].val

\* C2: while the list is alive, size (what len() returns) is the number of
\* nodes reached from head by following next.
C2_CountInvariant ==
    Live => /\ size = Len(Chain(head))
            /\ len = Len(Chain(head))

C2_Witness ==
    /\ Live
    /\ size = 2
    /\ Len(Chain(head)) = 2
    /\ \E i \in DOMAIN hist : hist[i].op = "pop" /\ hist[i].val # None

\* C3 as stated: after k calls of push and j calls of pop, j <= k, len() is
\* k - j and is_empty() is (k - j = 0).
C3_Original ==
    (Live /\ Calls("pop") <= Calls("push")) =>
        /\ len = Calls("push") - Calls("pop")
        /\ is_empty = (Calls("push") - Calls("pop") = 0)

\* No pop was called on an empty list: every pop returned a value.
NoEmptyPop == \A i \in DOMAIN hist : hist[i].op = "pop" => hist[i].val # None

\* C3 as amended: after k calls of push and j calls of pop, none of them on
\* an empty list, len() is k - j and is_empty() is (k - j = 0).
C3_LenAfterPushPop ==
    (Live /\ NoEmptyPop) =>
        /\ Calls("pop") <= Calls("push")
        /\ len = Calls("push") - Calls("pop")
        /\ is_empty = (Calls("push") - Calls("pop") = 0)

C3_Witness ==
    /\ Live /\ NoEmptyPop
    /\ Calls("push") = 2
    /\ Calls("pop") = 2
    /\ ret = [op |-> "is_empty", val |-> Some(TRUE)]

\* The pushed and not yet popped values, most recent first, as the calls
\* since new() determine them (meaningful while no iter_mut pass was made).
RECURSIVE Unpopped(_)
Unpopped(h) ==
    IF h = <<>> THEN <<>>
    ELSE LET before == Unpopped(SubSeq(h, 1, Len(h) - 1))
             last == h[Len(h)] IN
         IF last.op = "push" THEN last.val \o before
         ELSE IF last.op = "pop" /\ before # <<>> THEN Tail(before)
         ELSE before

\* C4: a peek() changes neither head, size nor any node; on a non-empty
\* list it returns what pop() would return, which is the most recently
\* pushed value not yet popped, and a pop() called right after it returns
\* that same value.
C4_PeekStep ==
    /\ ret'.op = "peek" =>
          /\ UNCHANGED <<head, size, nodes>>
          /\ Elements' = Elements
          /\ head # NULL =>
                /\ ret'.val # None
                /\ ret'.val = PopOutcome.val
                /\ Calls("iter_mut") = 0 => ret'.val = Some(Head(Unpopped(hist)))
    /\ (ret.op = "peek" /\ ret'.op = "pop" /\ head # NULL) => ret'.val = ret.val

\* C4: every step satisfies C4_PeekStep: peek() is read-only and returns
\* what the next pop() returns.
C4_Peek == [][C4_PeekStep]_vars

C4_Witness ==
    /\ Live
    /\ size = 2
    /\ hist = <<[op |-> "push", val |-> Some("a")], [op |-> "push", val |-> Some("b")]>>
    /\ ret = [op |-> "peek", val |-> Some("b")]

\* The step is a call of pop.
PopCalled == Len(hist') = Len(hist) + 1 /\ hist'[Len(hist')].op = "pop"

\* C5: on an empty list pop() and peek() return None and change nothing:
\* head stays None and size stays 0, so the list is as new() made it.
C5_EmptyStep ==
    (Live /\ head = NULL /\ (PopCalled \/ ret'.op = "peek")) =>
        /\ ret'.val = None
        /\ head' = NULL
        /\ size' = 0
        /\ size' = size
        /\ nodes' = nodes
        /\ nodes' = <<>>

\* C5: every step satisfies C5_EmptyStep: pop() and peek() on an empty list
\* return None and leave it empty, with size 0.
C5_EmptyPopPeek == [][C5_EmptyStep]_vars

C5_Witness ==
    /\ Live
    /\ Len(hist) = 3
    /\ hist[1] = [op |-> "pop", val |-> None]
    /\ hist[2] = [op |-> "push", val |-> Some("a")]
    /\ hist[3] = [op |-> "pop", val |-> Some("a")]
    /\ size = 0
    /\ ret = [op |-> "peek", val |-> None]

\* The strings of `seq` joined by `sep`.
RECURSIVE JoinWith(_, _)
JoinWith(seq, sep) ==
    IF seq = <<>> THEN ""
    ELSE IF Len(seq) = 1 THEN seq[1]
    ELSE (seq[1] \o sep) \o JoinWith(Tail(seq), sep)

\* C6: the rendering of a list is "[", its element values from head to tail
\* joined by ", ", and "]": "[]" when empty, "[x]" for one element, no
\* separator after the last element; the most recently pushed value is first.
C6_DisplayFormat ==
    Live =>
        /\ fmt = ("[" \o JoinWith(Elements, ", ")) \o "]"
        /\ head = NULL => fmt = "[]"
        /\ size = 1 => fmt = ("[" \o nodes[head].data) \o "]"
        /\ ret.op = "fmt" => ret.val = Some(("[" \o JoinWith(Elements, ", ")) \o "]")
        /\ Calls("iter_mut") = 0 => Elements = Unpopped(hist)

C6_Witness ==
    /\ Live
    /\ Elements = <<"b", "a", "a">>
    /\ ret = [op |-> "fmt", val |-> Some("[b, a, a]")]

PushedCBA ==
    hist = <<[op |-> "push", val |-> Some("c")],
             [op |-> "push", val |-> Some("b")],
             [op |-> "push", val |-> Some("a")]>>

\* C7 as stated: after pushing c, then b, then a on a new list, the
\* rendering is "[c, b, a]"; an empty list renders as "[]".
C7_Original ==
    /\ (Live /\ PushedCBA) => fmt = "[c, b, a]"
    /\ (Live /\ head = NULL) => fmt = "[]"

\* C7 as amended: after pushing c, then b, then a on a new list, the
\* rendering is "[a, b, c]"; an empty list renders as "[]".
C7_DisplayPushed ==
    /\ (Live /\ PushedCBA) =>
          /\ fmt = "[a, b, c]"
          /\ ret.op = "fmt" => ret.val = Some("[a, b, c]")
    /\ (Live /\ head = NULL) =>
          /\ fmt = "[]"
          /\ ret.op = "fmt" => ret.val = Some("[]")

C7_Witness ==
    /\ Live
    /\ PushedCBA
    /\ ret = [op |-> "fmt", val |-> Some("[a, b, c]")]

\* What successive calls of pop would return on the list (heap, hd, sz)
\* until it is empty.
RECURSIVE SuccessivePops(_, _, _)
SuccessivePops(heap, hd, sz) ==
    LET r == PopFrom(heap, hd, sz) IN
    IF r.val = None THEN <<>>
    ELSE r.val \o SuccessivePops(heap, r.head, r.size)

\* C8: an Iter yields the element values from head to tail, each once, and
\* then None: when it has ended it has yielded len() items, which are what
\* successive pops would return; after pushing c, b, a they are a, b, c.
C8_IterOrder ==
    iter.active =>
        /\ Len(iter.yielded) <= len
        /\ iter.yielded = SubSeq(Elements, 1, Len(iter.yielded))
        /\ iter.ends > 0 =>
              /\ Len(iter.yielded) = len
              /\ iter.yielded = Elements
              /\ iter.yielded = SuccessivePops(nodes, head, size)
              /\ PushedCBA => iter.yielded = <<"a", "b", "c">>
        /\ (iter.ends = 0 /\ ret.op = "iter.next") =>
              ret.val = Some(Elements[Len(iter.yielded)])
        /\ (iter.ends > 0 /\ ret.op = "iter.next") => ret.val = None

C8_Witness ==
    /\ PushedCBA
    /\ iter.active
    /\ iter.yielded = <<"a", "b", "c">>
    /\ iter.ends = 1
    /\ ret = [op |-> "iter.next", val |-> None]

\* An iter_mut pass has ended and the caller appended Suffix to every item.
FullAppendPass ==
    /\ iter_mut.ends > 0
    /\ \A k \in DOMAIN iter_mut.appended : iter_mut.appended[k]

PushedCBAThenIterMut ==
    hist = <<[op |-> "push", val |-> Some("c")],
             [op |-> "push", val |-> Some("b")],
             [op |-> "push", val |-> Some("a")],
             [op |-> "iter_mut", val |-> None]>>

\* C9: after a full iter_mut pass whose caller appends Suffix to every item,
\* every element is its old value followed by Suffix, the items were the
\* nodes from head to tail, each once, and size and the chain of nodes are
\* as before; after pushing c, b, a the list then renders "[a!, b!, c!]".
\* The IterMut is still alive in the states this speaks of; ending its borrow
\* changes nothing of the list, and C6 ties every Display call to fmt.
C9_IterMutAppend ==
    FullAppendPass =>
        /\ Len(Elements) = Len(iter_mut.before)
        /\ \A i \in DOMAIN Elements : Elements[i] = iter_mut.before[i] \o Suffix
        /\ iter_mut.yielded = iter_mut.chain
        /\ Chain(head) = iter_mut.chain
        /\ size = iter_mut.size
        /\ size = Len(Chain(head))
        /\ PushedCBAThenIterMut => fmt = "[a!, b!, c!]"

C9_Witness ==
    /\ FullAppendPass
    /\ PushedCBAThenIterMut
    /\ iter_mut.yielded = Chain(head)
    /\ Elements = <<"a!", "b!", "c!">>
    /\ fmt = "[a!, b!, c!]"

\* C10: drop runs one loop iteration per node and ends with every node
\* released; an iteration releases exactly the node it detached, whose link
\* to its successor is gone by then, so no release nests in another.
C10_IterativeDrop ==
    /\ dropLog.depth <= 1
    /\ phase = "dropping" =>
          /\ head = NULL
          /\ dropLog.iterations <= dropLog.n
          /\ Len(Chain(current_node)) = dropLog.n - dropLog.iterations
          /\ Range(Chain(current_node)) = DOMAIN nodes
          /\ ENABLED (DropStep \/ DropEnd)
    /\ phase = "dropped" =>
          /\ dropLog.iterations = dropLog.n
          /\ dropLog.n = size
          /\ DOMAIN nodes = {}
          /\ current_node = NULL
          /\ dropLog.n > 0 => dropLog.depth = 1

C10_Witness ==
    /\ phase = "dropped"
    /\ dropLog = [n |-> 3, iterations |-> 3, depth |-> 1]
    /\ DOMAIN nodes = {}

\* The step is a call of push.
PushCalled == Len(hist') = Len(hist) + 1 /\ hist'[Len(hist')].op = "push"

\* C11: a push(value) allocates exactly one node, holding value, whose
\* successor is the previous head; that node is the new head, size grows by
\* one, and every node already stored is as it was, in the same order.
C11_PushStep ==
    PushCalled =>
        /\ ret'.op = "push"
        /\ head' \notin DOMAIN nodes
        /\ DOMAIN nodes' = DOMAIN nodes \cup {head'}
        /\ nodes'[head'].data = hist'[Len(hist')].val[1]
        /\ nodes'[head'].next = head
        /\ size' = size + 1
        /\ \A id \in DOMAIN nodes : nodes'[id] = nodes[id]
        /\ Chain(head)' = <<head'>> \o Chain(head)
        /\ Elements' = hist'[Len(hist')].val \o Elements

\* C11: every step satisfies C11_PushStep.
C11_Push == [][C11_PushStep]_vars

C11_Witness ==
    /\ Live
    /\ PushedCBA
    /\ ret.op = "push"
    /\ size = 3
    /\ nodes[head] = [data |-> "a", next |-> Chain(head)[2]]
    /\ Elements = <<"a", "b", "c">>

\* C12: on a live list is_empty() (head is None) and len() == 0 (size is 0)
\* agree.
C12_EmptyIffZero ==
    Live => (is_empty <=> (len = 0))

C12_Witness ==
    /\ Live
    /\ ~is_empty
    /\ len = 1
    /\ Calls("push") = 2
    /\ Calls("pop") = 1
    /\ ret = [op |-> "is_empty", val |-> Some(FALSE)]

\* C13: after new() head is None and size is 0, and as long as nothing was
\* pushed len() is 0, is_empty() is true, peek() and pop() return None, an
\* Iter yields nothing and the rendering is "[]".
C13_NewIsEmpty ==
    /\ ret.op = "new" =>
          /\ Live
          /\ head = NULL
          /\ size = 0
          /\ nodes = <<>>
          /\ hist = <<>>
          /\ len = 0
          /\ is_empty
          /\ peek = None
          /\ PopOutcome.val = None
          /\ IterStep(head).item = None
          /\ fmt = "[]"
    /\ (Live /\ Calls("push") = 0) =>
          /\ ret.op = "len" => ret.val = Some(0)
          /\ ret.op = "is_empty" => ret.val = Some(TRUE)
          /\ ret.op \in {"peek", "pop", "iter.next"} => ret.val = None
          /\ ret.op = "fmt" => ret.val = Some("[]")
          /\ iter.yielded = <<>>

C13_Witness ==
    /\ Live
    /\ hist = <<>>
    /\ head = NULL
    /\ size = 0
    /\ ret = [op |-> "len", val |-> Some(0)]

\* C14: a pop() on a non-empty list returns the head node's value, makes
\* that node's successor the head, lowers size by one and frees that node
\* only; the other nodes are as they were, in the same order.
C14_PopStep ==
    (PopCalled /\ head # NULL) =>
        /\ ret' = [op |-> "pop", val |-> Some(nodes[head].data)]
        /\ head' = nodes[head].next
        /\ size' = size - 1
        /\ DOMAIN nodes' = DOMAIN nodes \ {head}
        /\ \A id \in DOMAIN nodes' : nodes'[id] = nodes[id]
        /\ Chain(head)' = Tail(Chain(head))
        /\ Elements' = Tail(Elements)

\* C14: every step satisfies C14_PopStep.
C14_Pop == [][C14_PopStep]_vars

C14_Witness ==
    /\ Live
    /\ hist = <<[op |-> "push", val |-> Some("a")],
                [op |-> "push", val |-> Some("b")],
                [op |-> "pop", val |-> Some("b")]>>
    /\ ret = [op |-> "pop", val |-> Some("b")]
    /\ Elements = <<"a">>
    /\ size = 1

\* The nodes reached from `from` in at most k links of `heap`.
RECURSIVE ReachIn(_, _, _)
ReachIn(heap, from, k) ==
    IF k = 0 \/ from \notin DOMAIN heap THEN {}
    ELSE {from} \cup ReachIn(heap, heap[from].next, k - 1)

Reach(heap, from) == ReachIn(heap, from, Cardinality(DOMAIN heap))

\* The number of slots that hold node `id`: the root slots and the next
\* fields of the nodes.
OwnerCount(heap, roots, id) ==
    Cardinality({i \in DOMAIN roots : roots[i] = id})
        + Cardinality({j \in DOMAIN heap : heap[j].next = id})

\* No node reaches itself, no slot holds a freed node, every node is held by
\* exactly one slot, and every node is reached from a root slot.
Owned(heap, roots) ==
    /\ \A id \in DOMAIN heap : id \notin Reach(heap, heap[id].next)
    /\ \A i \in DOMAIN roots : roots[i] = NULL \/ roots[i] \in DOMAIN heap
    /\ \A id \in DOMAIN heap : heap[id].next = NULL \/ heap[id].next \in DOMAIN heap
    /\ \A id \in DOMAIN heap : OwnerCount(heap, roots, id) = 1
    /\ DOMAIN heap = UNION {Reach(heap, roots[i]) : i \in DOMAIN roots}

OwnedByHeadOnly(st) == Owned(st.heap, <<st.head>>)
OwnedWithLocals(st) == Owned(st.heap, <<st.head>> \o st.locals)

\* C15 as stated: in every state, the states inside teardown included, the
\* chain is acyclic and every live node is held by exactly one slot, the
\* head or the next of one other node, and is reached from the head.
C15_Original == OwnedByHeadOnly(AtRest)

\* C15 as amended: in every state, and in the states inside push, pop and
\* drop, the chain is acyclic and every live node is held by exactly one
\* slot: the head, the next of one other node, or a local of the operation
\* in progress; every live node is reached from the head or such a local,
\* and between the operations on a live list from the head.
C15_Ownership ==
    /\ OwnedWithLocals(AtRest)
    /\ Live => OwnedByHeadOnly(AtRest) /\ current_node = NULL
    /\ (Live /\ NoBorrow) =>
          /\ OwnedWithLocals(HeadTaken)
          /\ FreeCells # {} => \A data \in Values : OwnedWithLocals(PushBoxed(data))
          /\ head # NULL => OwnedWithLocals(PopRelinked)
    /\ (phase = "dropping" /\ current_node # NULL) => OwnedWithLocals(DropTaken)

C15_Witness ==
    /\ phase = "dropping"
    /\ dropLog.n = 3
    /\ dropLog.iterations = 1
    /\ head = NULL
    /\ current_node # NULL
    /\ Reach(nodes, current_node) = DOMAIN nodes
    /\ Cardinality(DOMAIN nodes) = 2
    /\ OwnerCount(DropTaken.heap, <<DropTaken.head>> \o DropTaken.locals, current_node) = 1

\* The values an Iter whose field is `next` has still to yield.
Remaining(next) == [i \in 1..Len(Chain(next)) |-> nodes[Chain(next)[i]].data]

\* What the live Iter has yielded, followed by what it has still to yield.
IterWhole == iter.yielded \o Remaining(iter.next)

\* C16: iter() and Iter::next() change neither head, size nor any node; an
\* iter() call returns an Iter that starts at the head, however far an
\* earlier Iter was advanced, and what an Iter has yielded followed by what
\* it has still to yield is always the elements from head to tail.
C16_IterStep ==
    /\ ret'.op \in {"iter", "iter.next", "iter.drop"} =>
          /\ UNCHANGED <<head, size, nodes, hist>>
          /\ Elements' = Elements
    /\ ret'.op = "iter" =>
          /\ iter' = [active |-> TRUE, next |-> head, yielded |-> <<>>, ends |-> 0]
          /\ IterWhole' = Elements
    /\ iter'.active => IterWhole' = Elements'

\* C16: every step satisfies C16_IterStep.
C16_IterReadOnly == [][C16_IterStep]_vars

C16_Witness ==
    /\ Live
    /\ PushedCBA
    /\ iter.active
    /\ iter.yielded = <<"a", "b">>
    /\ iter.ends = 0
    /\ Remaining(iter.next) = <<"c">>
    /\ Elements = <<"a", "b", "c">>
    /\ size = 3

\* pop() on the list that push(data) leaves, and the heap after it.
PopAfterPush(data) ==
    PopFrom(AfterPush(data).heap, AfterPush(data).head, AfterPush(data).size)

HeapAfterPushPop(data) ==
    [id \in (DOMAIN AfterPush(data).heap) \ PopAfterPush(data).freed |->
        AfterPush(data).heap[id]]

\* C17: from any state of a live list, push(v) followed at once by pop()
\* returns Some(v) and leaves head, size and the nodes as they were; in the
\* calls made, a pop that follows a push returns the pushed value and the
\* elements are those of before the push.
C17_PushPopRoundTrip ==
    /\ (Live /\ NoBorrow /\ FreeCells # {}) =>
          \A data \in Values :
              /\ PopAfterPush(data).val = Some(data)
              /\ PopAfterPush(data).head = head
              /\ PopAfterPush(data).size = size
              /\ HeapAfterPushPop(data) = nodes
    /\ \A i \in 1..(Len(hist) - 1) :
          (hist[i].op = "push" /\ hist[i + 1].op = "pop") =>
              hist[i + 1].val = hist[i].val
    /\ (/\ Live
        /\ Len(hist) >= 2
        /\ hist[Len(hist) - 1].op = "push"
        /\ hist[Len(hist)].op = "pop"
        /\ Calls("iter_mut") = 0) =>
          /\ Elements = Unpopped(SubSeq(hist, 1, Len(hist) - 2))
          /\ size = Len(Unpopped(SubSeq(hist, 1, Len(hist) - 2)))

C17_Witness ==
    /\ Live
    /\ hist = <<[op |-> "push", val |-> Some("c")],
                [op |-> "push", val |-> Some("a")],
                [op |-> "pop", val |-> Some("a")]>>
    /\ Elements = <<"c">>
    /\ size = 1
    /\ PopAfterPush("b").val = Some("b")
    /\ HeapAfterPushPop("b") = nodes

\* While an IterMut is alive it has lent out the first m nodes from the
\* head, in order; an element is its old value, followed by Suffix if it was
\* lent out and appended to; size and the chain of nodes are as they were.
PartialPass ==
    iter_mut.active =>
        LET m == Len(iter_mut.yielded) IN
        /\ m <= iter_mut.size
        /\ iter_mut.yielded = SubSeq(iter_mut.chain, 1, m)
        /\ Chain(head) = iter_mut.chain
        /\ size = iter_mut.size
        /\ Len(Elements) = Len(iter_mut.before)
        /\ \A i \in DOMAIN Elements :
              Elements[i] = IF i <= m /\ iter_mut.appended[i]
                            THEN iter_mut.before[i] \o Suffix
                            ELSE iter_mut.before[i]

CountIsChainLength == size = Len(Chain(head))

\* C18: an IterMut advanced m times has changed at most the first m
\* elements; the elements it has not lent out have their old values, size
\* and the order of the nodes are unchanged, and ending the IterMut, at any
\* point, changes nothing and leaves a live list without a borrow.
C18_IterMutStep ==
    /\ PartialPass
    /\ PartialPass'
    /\ (iter_mut.active /\ ~iter_mut'.active) =>
          /\ UNCHANGED <<head, size, nodes>>
          /\ Elements' = Elements
          /\ CountIsChainLength'
          /\ Live'
          /\ NoBorrow'

\* C18: every step satisfies C18_IterMutStep.
C18_PartialIterMut == [][C18_IterMutStep]_vars

C18_Witness ==
    /\ PushedCBAThenIterMut
    /\ iter_mut.active
    /\ iter_mut.ends = 0
    /\ Len(iter_mut.yielded) = 1
    /\ iter_mut.appended = <<TRUE>>
    /\ Elements = <<"a!", "b", "c">>
    /\ size = 3

\* The step is a call of next() on the live Iter, or on the live IterMut.
IterNextCalled ==
    /\ iter.active /\ iter'.active
    /\ iter'.ends + Len(iter'.yielded) = iter.ends + Len(iter.yielded) + 1

IterMutNextCalled ==
    /\ iter_mut.active /\ iter_mut'.active
    /\ iter_mut'.ends + Len(iter_mut'.yielded) = iter_mut.ends + Len(iter_mut.yielded) + 1

\* C19: an Iter or IterMut that has returned None has its `next` at None,
\* and every later call of next() on it returns None and yields nothing;
\* on an empty list the first call of next() returns None.
C19_EndedStep ==
    /\ iter.ends > 0 => iter.next = NULL
    /\ iter_mut.ends > 0 => iter_mut.next = NULL
    /\ (IterNextCalled /\ iter.ends > 0) =>
          /\ ret' = [op |-> "iter.next", val |-> None]
          /\ iter'.yielded = iter.yielded
          /\ iter'.next = NULL
          /\ iter'.ends = iter.ends + 1
    /\ (IterMutNextCalled /\ iter_mut.ends > 0) =>
          /\ ret' = [op |-> "iter_mut.next", val |-> None]
          /\ iter_mut'.yielded = iter_mut.yielded
          /\ iter_mut'.next = NULL
          /\ iter_mut'.ends = iter_mut.ends + 1
          /\ nodes' = nodes
    /\ (IterNextCalled /\ head = NULL) =>
          /\ ret' = [op |-> "iter.next", val |-> None]
          /\ iter'.yielded = <<>>
    /\ (IterMutNextCalled /\ head = NULL) =>
          /\ ret' = [op |-> "iter_mut.next", val |-> None]
          /\ iter_mut'.yielded = <<>>

\* C19: every step satisfies C19_EndedStep.
C19_IteratorsStayEnded == [][C19_EndedStep]_vars

C19_Witness ==
    /\ Live
    /\ size = 2
    /\ iter.active
    /\ iter.ends = 2
    /\ iter.next = NULL
    /\ Len(iter.yielded) = 2
    /\ ret = [op |-> "iter.next", val |-> None]

====
